---- MODULE Spec2Model ----
(***************************************************************************)
(* A model of the database layer of the storage engine (ham_new,           *)
(* ham_delete, ham_open, ham_create_ex, ham_find, ham_insert, ham_erase,   *)
(* ham_dump, ham_check_integrity, ham_close) and of btree_find, together   *)
(* with the parts they call (device, freelist, blob store, B-tree insert   *)
(* and erase, transactions), which are modelled from the specification.    *)
(***************************************************************************)
EXTENDS Integers, Sequences, FiniteSets, TLC

(***************************************************************************)
(* Bounds of the model.                                                    *)
(***************************************************************************)
\* number of calls of create, open, insert, erase, flush and close (and of
\* edits of the closed file) in one behaviour
MaxOps == 4
\* number of calls of find, dump and check_integrity in one behaviour; they
\* come after the calls that count for MaxOps, a close excepted
MaxReads == 1
\* largest page id of the file (page 0 is the header page)
MaxPage == 6

(***************************************************************************)
(* Status codes (the cases of ham_strerror).                                *)
(***************************************************************************)
HAM_SUCCESS == "HAM_SUCCESS"
HAM_SHORT_READ == "HAM_SHORT_READ"
HAM_SHORT_WRITE == "HAM_SHORT_WRITE"
HAM_INV_KEYSIZE == "HAM_INV_KEYSIZE"
HAM_INV_PAGESIZE == "HAM_INV_PAGESIZE"
HAM_OUT_OF_MEMORY == "HAM_OUT_OF_MEMORY"
HAM_INV_BACKEND == "HAM_INV_BACKEND"
HAM_INV_PARAMETER == "HAM_INV_PARAMETER"
HAM_INV_FILE_HEADER == "HAM_INV_FILE_HEADER"
HAM_INV_FILE_VERSION == "HAM_INV_FILE_VERSION"
HAM_KEY_NOT_FOUND == "HAM_KEY_NOT_FOUND"
HAM_DUPLICATE_KEY == "HAM_DUPLICATE_KEY"
HAM_INTEGRITY_VIOLATED == "HAM_INTEGRITY_VIOLATED"
HAM_DB_READ_ONLY == "HAM_DB_READ_ONLY"
HAM_BLOB_NOT_FOUND == "HAM_BLOB_NOT_FOUND"

(***************************************************************************)
(* Flags.                                                                   *)
(***************************************************************************)
HAM_READ_ONLY == "HAM_READ_ONLY"
HAM_IN_MEMORY_DB == "HAM_IN_MEMORY_DB"
HAM_DISABLE_VAR_KEYLEN == "HAM_DISABLE_VAR_KEYLEN"
HAM_RECORD_USER_ALLOC == "HAM_RECORD_USER_ALLOC"
KEY_BLOB_SIZE_TINY == "KEY_BLOB_SIZE_TINY"
KEY_BLOB_SIZE_SMALL == "KEY_BLOB_SIZE_SMALL"
KEY_BLOB_SIZE_EMPTY == "KEY_BLOB_SIZE_EMPTY"

(***************************************************************************)
(* Sizes and header constants.                                              *)
(***************************************************************************)
\* sizeof(ham_offset_t): the record pointer of a slot is a 64-bit word
SIZEOF_OFFSET == 8
\* sizeof(key_t): record pointer (8), key length (2), flags (1), key[1]
SIZEOF_KEY_T == 12
HAM_DEFAULT_PAGESIZE == 4096
HAM_VERSION_MAJ == 0
HAM_VERSION_MIN == 1
HAM_VERSION_REV == 2
HAM_SERIALNO == 0
\* the value of db_set_fd(db, -1): no file is open
INVALID_FD == 0 - 1
\* the descriptor os_open and os_create hand out
FILE_FD == 3
\* the magic bytes 'H', 'A', 'M', '\0'
MAGIC == <<72, 65, 77, 0>>
\* the bytes of a page of the file that was never written
ZEROS4 == <<0, 0, 0, 0>>

(***************************************************************************)
(* Keys and records of the model.  A key is named by a number; its length   *)
(* in bytes is KeyLen.  A record is a sequence of bytes.                    *)
(***************************************************************************)
Keys == {1, 2, 3}
KeyLen(k) == IF k = 3 THEN 30 ELSE 4
Rec(n) == [i \in 1..n |-> i + 64]
\* one record of each length class: EMPTY, TINY, SMALL, blob
Records == {Rec(0), Rec(7), Rec(8), Rec(9)}
NoData == <<>>

(***************************************************************************)
(* The 64-bit record pointer as eight little-endian bytes.                  *)
(***************************************************************************)
ToRid(n) == [i \in 1..SIZEOF_OFFSET |-> IF i = 1 THEN n % 256 ELSE IF i = 2 THEN (n \div 256) % 256 ELSE 0]
FromRid(p) == p[1] + 256 * p[2]
ZeroRid == ToRid(0)

(***************************************************************************)
(* Pages.  A page of the file is an index page (a B-tree node: leaf bit,    *)
(* slots, pointer to the rightmost child) or a blob page (record bytes).    *)
(* A slot holds a key, the key flags and the 8-byte record pointer.         *)
(***************************************************************************)
\* the number of slots of one index page, scaled down
MaxKeysPerPage == 2
MinKeysPerPage == (MaxKeysPerPage + 1) \div 2
PageIds == 1..MaxPage
NoPage == [type |-> "none", leaf |-> FALSE, slots |-> <<>>, right |-> 0, data |-> <<>>]
BlobPage(d) == [type |-> "blob", leaf |-> FALSE, slots |-> <<>>, right |-> 0, data |-> d]
IndexPage(leaf, slots, right) == [type |-> "index", leaf |-> leaf, slots |-> slots, right |-> right, data |-> <<>>]
Slot(k, f, p) == [key |-> k, flags |-> f, ptr |-> p]

InsertAt(seq, i, x) == SubSeq(seq, 1, i - 1) \o <<x>> \o SubSeq(seq, i, Len(seq))
RemoveAt(seq, i) == SubSeq(seq, 1, i - 1) \o SubSeq(seq, i + 1, Len(seq))
SlotKeys(slots) == {slots[i].key : i \in 1..Len(slots)}
CountLess(slots, k) == Cardinality({i \in 1..Len(slots) : slots[i].key < k})
CountLessEq(slots, k) == Cardinality({i \in 1..Len(slots) : slots[i].key <= k})

(***************************************************************************)
(* The engine's in-memory state S: the pages as the cache presents them,    *)
(* the set of dirty pages, the freelist, the root page id of the backend    *)
(* and the length of the file in pages.                                     *)
(***************************************************************************)
EmptyStore == [pages |-> [i \in PageIds |-> NoPage], dirty |-> {}, freel |-> <<>>, root |-> 0, len |-> 0]
WritePage(S, id, page) == [S EXCEPT !.pages[id] = page, !.dirty = @ \cup {id}]

\* freelist first, then file extension
db_alloc_page(S) ==
    IF S.freel # <<>>
    THEN [id |-> Head(S.freel), S |-> [S EXCEPT !.freel = Tail(@)]]
    ELSE [id |-> S.len, S |-> [S EXCEPT !.len = @ + 1]]

\* release: the page id is recorded as free; alloc pops the id released last
db_free_page(S, id) == [WritePage(S, id, NoPage) EXCEPT !.freel = <<id>> \o @]

\* the pages an operation may still allocate within the bound MaxPage
FreeCapacity(S) == Len(S.freel) + (MaxPage + 1 - S.len)

(***************************************************************************)
(* Blob store.                                                              *)
(***************************************************************************)
blob_alloc(S, data) ==
    LET a == db_alloc_page(S)
    IN [id |-> a.id, S |-> WritePage(a.S, a.id, BlobPage(data))]

\* fail: the device fails to read the blob page
blob_read(S, blobid, fail) ==
    IF fail THEN [st |-> HAM_SHORT_READ, data |-> NoData]
    ELSE IF blobid \notin PageIds \/ S.pages[blobid].type # "blob"
    THEN [st |-> HAM_BLOB_NOT_FOUND, data |-> NoData]
    ELSE [st |-> HAM_SUCCESS, data |-> S.pages[blobid].data]

blob_free(S, blobid, fail) ==
    IF fail THEN [st |-> HAM_SHORT_READ, S |-> S]
    ELSE IF blobid \notin PageIds \/ S.pages[blobid].type # "blob"
    THEN [st |-> HAM_BLOB_NOT_FOUND, S |-> S]
    ELSE [st |-> HAM_SUCCESS, S |-> db_free_page(S, blobid)]

(***************************************************************************)
(* Inline record encodings of a slot.                                       *)
(***************************************************************************)
TinyRid(rec) == [i \in 1..SIZEOF_OFFSET |-> IF i <= Len(rec) THEN rec[i] ELSE IF i = SIZEOF_OFFSET THEN Len(rec) ELSE 0]

key_set_record(S, rec) ==
    IF Len(rec) = 0 THEN [S |-> S, flags |-> {KEY_BLOB_SIZE_EMPTY}, ptr |-> ZeroRid]
    ELSE IF Len(rec) < SIZEOF_OFFSET THEN [S |-> S, flags |-> {KEY_BLOB_SIZE_TINY}, ptr |-> TinyRid(rec)]
    ELSE IF Len(rec) = SIZEOF_OFFSET THEN [S |-> S, flags |-> {KEY_BLOB_SIZE_SMALL}, ptr |-> rec]
    ELSE LET b == blob_alloc(S, rec) IN [S |-> b.S, flags |-> {}, ptr |-> ToRid(b.id)]

(***************************************************************************)
(* B-tree nodes: the keys and children of an internal node.  The subtree    *)
(* of child i holds the keys below key i; the rightmost child the others.   *)
(***************************************************************************)
NodeKeys(node) == [i \in 1..Len(node.slots) |-> node.slots[i].key]
NodeChildren(node) == [i \in 1..(Len(node.slots) + 1) |-> IF i <= Len(node.slots) THEN FromRid(node.slots[i].ptr) ELSE node.right]
MakeInternal(ks, cs) == IndexPage(FALSE, [i \in 1..Len(ks) |-> Slot(ks[i], {}, ToRid(cs[i]))], cs[Len(cs)])
ChildPos(node, key) == CountLessEq(node.slots, key) + 1
ChildFor(node, key) == NodeChildren(node)[ChildPos(node, key)]

RECURSIVE LeafOf(_, _, _)
LeafOf(S, id, key) == IF S.pages[id].leaf THEN id ELSE LeafOf(S, ChildFor(S.pages[id], key), key)

(***************************************************************************)
(* B-tree insert: search the leaf; a present key is a duplicate; a leaf     *)
(* with room takes the slot in sorted position; a full leaf is split, the   *)
(* upper half moves to a new leaf and the split key goes to the parent; a   *)
(* split root gets a new root above it.  (The trees of this model have at   *)
(* most two levels: the parent of a leaf is the root.)                      *)
(***************************************************************************)
btree_split_leaf(S, leafid, all, key) ==
    LET half == Len(all) \div 2
        lower == SubSeq(all, 1, half)
        upper == SubSeq(all, half + 1, Len(all))
        a1 == db_alloc_page(S)
        sib == a1.id
        S2 == WritePage(WritePage(a1.S, leafid, IndexPage(TRUE, lower, 0)), sib, IndexPage(TRUE, upper, 0))
        sep == upper[1].key
    IN  IF leafid = S.root
        THEN LET a2 == db_alloc_page(S2)
             IN [WritePage(a2.S, a2.id, MakeInternal(<<sep>>, <<leafid, sib>>)) EXCEPT !.root = a2.id]
        ELSE LET parent == S.pages[S.root]
                 p == ChildPos(parent, key)
             IN WritePage(S2, S.root, MakeInternal(InsertAt(NodeKeys(parent), p, sep), InsertAt(NodeChildren(parent), p + 1, sib)))

\* fail: a page of the path cannot be fetched; nothing is changed
btree_insert(S, key, rec, fail) ==
    IF fail THEN [st |-> HAM_SHORT_READ, S |-> S]
    ELSE
    LET leafid == LeafOf(S, S.root, key)
        leaf == S.pages[leafid]
    IN  IF key \in SlotKeys(leaf.slots) THEN [st |-> HAM_DUPLICATE_KEY, S |-> S]
        ELSE LET enc == key_set_record(S, rec)
                 all == InsertAt(leaf.slots, CountLess(leaf.slots, key) + 1, Slot(key, enc.flags, enc.ptr))
             IN IF Len(all) <= MaxKeysPerPage
                THEN [st |-> HAM_SUCCESS, S |-> WritePage(enc.S, leafid, IndexPage(TRUE, all, 0))]
                ELSE [st |-> HAM_SUCCESS, S |-> btree_split_leaf(enc.S, leafid, all, key)]

(***************************************************************************)
(* B-tree erase: search; remove the slot; a leaf below the minimum fill     *)
(* that is not the root borrows a slot from a sibling above the minimum,    *)
(* or else merges with the sibling; a root left with a single child is      *)
(* replaced by that child and freed.  The record pointer and the flags of   *)
(* the removed slot are handed back.                                        *)
(***************************************************************************)
btree_rebalance(S, leafid) ==
    LET parent == S.pages[S.root]
        cs == NodeChildren(parent)
        ks == NodeKeys(parent)
        p == CHOOSE i \in 1..Len(cs) : cs[i] = leafid
        sibpos == IF p < Len(cs) THEN p + 1 ELSE p - 1
        l == IF sibpos > p THEN p ELSE sibpos
        L == cs[l]
        R == cs[l + 1]
        ls == S.pages[L].slots
        rs == S.pages[R].slots
    IN  IF Len(S.pages[cs[sibpos]].slots) > MinKeysPerPage
        THEN LET ls2 == IF sibpos > p THEN Append(ls, rs[1]) ELSE SubSeq(ls, 1, Len(ls) - 1)
                 rs2 == IF sibpos > p THEN Tail(rs) ELSE <<ls[Len(ls)]>> \o rs
                 ks2 == [ks EXCEPT ![l] = rs2[1].key]
             IN WritePage(WritePage(WritePage(S, L, IndexPage(TRUE, ls2, 0)), R, IndexPage(TRUE, rs2, 0)),
                          S.root, MakeInternal(ks2, cs))
        ELSE LET S1 == db_free_page(WritePage(S, L, IndexPage(TRUE, ls \o rs, 0)), R)
                 ks2 == RemoveAt(ks, l)
                 cs2 == RemoveAt(cs, l + 1)
             IN IF Len(ks2) = 0
                THEN [db_free_page(S1, S.root) EXCEPT !.root = L]
                ELSE WritePage(S1, S.root, MakeInternal(ks2, cs2))

btree_erase(S, key, fail) ==
    IF fail THEN [st |-> HAM_SHORT_READ, S |-> S, blobid |-> ZeroRid, intflags |-> {}]
    ELSE
    LET leafid == LeafOf(S, S.root, key)
        leaf == S.pages[leafid]
    IN  IF key \notin SlotKeys(leaf.slots)
        THEN [st |-> HAM_KEY_NOT_FOUND, S |-> S, blobid |-> ZeroRid, intflags |-> {}]
        ELSE LET idx == CHOOSE i \in 1..Len(leaf.slots) : leaf.slots[i].key = key
                 rest == RemoveAt(leaf.slots, idx)
                 S1 == WritePage(S, leafid, IndexPage(TRUE, rest, 0))
             IN [st |-> HAM_SUCCESS,
                 S |-> IF leafid = S.root \/ Len(rest) >= MinKeysPerPage THEN S1 ELSE btree_rebalance(S1, leafid),
                 blobid |-> leaf.slots[idx].ptr,
                 intflags |-> leaf.slots[idx].flags]

(***************************************************************************)
(* btree_find.  fault names the step of the search that fails: "fetch"      *)
(* (db_fetch_page of the root), "traverse" (btree_traverse_tree), "search"  *)
(* (btree_node_search_by_key), or "none".  The result holds the status,     *)
(* the handle's error (db_get_error) when btree_find returns, the record    *)
(* as btree_find leaves it and the pages it fetched.                        *)
(***************************************************************************)
\* a NULL page is 0; a failing fetch sets the handle's error
db_fetch_page(S, id, fail) ==
    IF fail \/ id \notin PageIds THEN [page |-> 0, err |-> HAM_SHORT_READ] ELSE [page |-> id, err |-> HAM_SUCCESS]

btree_traverse_tree(S, page, key, fail) == db_fetch_page(S, ChildFor(S.pages[page], key), fail)

\* the slot of the exact key, or -1
btree_node_search_by_key(S, page, key) ==
    LET slots == S.pages[page].slots
    IN IF key \in SlotKeys(slots) THEN CHOOSE i \in 1..Len(slots) : slots[i].key = key ELSE 0 - 1

RECURSIVE btree_find_loop(_, _, _, _, _, _)
\* the loop "while (1)": ends at a leaf (ret = FALSE) or returns an error
btree_find_loop(S, page, err, key, fault, path) ==
    IF page = 0
    THEN [ret |-> TRUE, page |-> 0, err |-> IF err = HAM_SUCCESS THEN HAM_KEY_NOT_FOUND ELSE err, path |-> path]
    ELSE IF S.pages[page].leaf
    THEN [ret |-> FALSE, page |-> page, err |-> err, path |-> path]
    ELSE LET t == btree_traverse_tree(S, page, key, fault = "traverse")
         IN btree_find_loop(S, t.page, IF t.err # HAM_SUCCESS THEN t.err ELSE err, key, fault,
                            IF t.page # 0 THEN Append(path, t.page) ELSE path)

\* the result of btree_find: status, db_get_error, the caller's record, the pages fetched
FindRes(st, record, path) == [st |-> st, err |-> st, record |-> record, path |-> path]

\* a variant of btree_find_entry that stores the record pointer and not the flags
btree_find_entry_without_flags(S, record, d, idx, err) ==
    IF err # HAM_SUCCESS THEN FindRes(err, record, d.path)
    ELSE IF idx < 0 THEN FindRes(HAM_KEY_NOT_FOUND, record, d.path)
    ELSE FindRes(HAM_SUCCESS, [record EXCEPT !.rid = S.pages[d.page].slots[idx].ptr], d.path)

\* "load the entry, and store record ID and key flags"
btree_find_entry(S, record, d, idx, err) ==
    IF err # HAM_SUCCESS THEN FindRes(err, record, d.path)
    ELSE IF idx < 0 THEN FindRes(HAM_KEY_NOT_FOUND, record, d.path)
    ELSE FindRes(HAM_SUCCESS,
                 [record EXCEPT !.rid = S.pages[d.page].slots[idx].ptr, !.intflags = S.pages[d.page].slots[idx].flags],
                 d.path)

\* "check the leaf page for the key"; d is the outcome of the loop
btree_find_leaf(S, key, record, fault, d) ==
    IF d.ret THEN FindRes(d.err, record, d.path)
    ELSE btree_find_entry(S, record, d, btree_node_search_by_key(S, d.page, key),
                          IF fault = "search" THEN HAM_SHORT_READ ELSE d.err)

\* r is the root page as fetched
btree_find_root(S, key, record, fault, r) ==
    IF r.page = 0 THEN FindRes(r.err, record, <<>>)
    ELSE btree_find_leaf(S, key, record, fault, btree_find_loop(S, r.page, HAM_SUCCESS, key, fault, <<r.page>>))

btree_find(S, key, record, fault) ==
    IF S.root = 0 THEN FindRes(HAM_KEY_NOT_FOUND, record, <<>>)
    ELSE btree_find_root(S, key, record, fault, db_fetch_page(S, S.root, fault = "fetch"))

(***************************************************************************)
(* The database handle (ham_db_t), the header and the file.                 *)
(*   hdr          the persistent header kept in the handle                  *)
(*   header_page  the header page (payload: header fields and freelist)     *)
(*   backend, cache  whether the handle has one                             *)
(*   allocsize    db_get_record_allocsize                                   *)
(* The file holds the header page as last written, the other pages, its     *)
(* length in pages, whether its descriptor was opened read-only, and        *)
(* whether a close that failed left it half-written (torn).                 *)
(***************************************************************************)
ZeroHdr == [magic |-> ZEROS4, vmaj |-> 0, vmin |-> 0, vrev |-> 0, serial |-> 0,
            flags |-> {}, pagesize |-> 0, keysize |-> 0, root |-> 0]
NoHeaderPage == [present |-> FALSE, hdr |-> ZeroHdr, freel |-> <<>>, dirty |-> FALSE]
\* the handle after ham_new: memset to 0, no file
NewHandle == [fd |-> INVALID_FD, error |-> HAM_SUCCESS, hdr |-> ZeroHdr, dirty |-> FALSE,
              header_page |-> NoHeaderPage, backend |-> FALSE, cache |-> FALSE, allocsize |-> 0]
NoFile == [exists |-> FALSE, hp |-> [hdr |-> ZeroHdr, freel |-> <<>>],
           pages |-> [i \in PageIds |-> NoPage], len |-> 0, ro |-> FALSE, torn |-> FALSE]
\* errno of an os_open that fails
ENOENT == "ENOENT"
\* errno of an os_close that fails
EIO == "EIO"

db_is_open(h) == h.fd # INVALID_FD
db_set_error(h, st) == [h EXCEPT !.error = st]
Call(fn, st) == [fn |-> fn, st |-> st]
Result(st, h, S, file, calls) == [st |-> st, h |-> h, S |-> S, file |-> file, calls |-> calls]

(***************************************************************************)
(* ham_create_ex.  fault names the step that fails, or is "none".           *)
(***************************************************************************)
\* the backend initialises its root: an empty leaf
be_create(S) ==
    LET a == db_alloc_page(S)
    IN [WritePage(a.S, a.id, IndexPage(TRUE, <<>>, 0)) EXCEPT !.root = a.id]

\* the freelist is initialised from the payload of the header page
freel_create(h, S) == [S EXCEPT !.freel = IF h.header_page.present THEN h.header_page.freel ELSE <<>>]

\* the key size and page size ham_create_ex works with
create_keysize(keysize) == IF keysize = 0 THEN 32 - SIZEOF_KEY_T - 1 ELSE keysize
create_pagesize(pagesize) == IF pagesize = 0 THEN HAM_DEFAULT_PAGESIZE ELSE pagesize

\* a variant of create_check that checks the page size only
create_check_pagesize_only(pagesize, keysize) ==
    IF pagesize # 0 /\ pagesize % 512 # 0 THEN HAM_INV_PAGESIZE ELSE HAM_SUCCESS

\* the check of the page size and key size: the status, HAM_SUCCESS to go on
create_check(pagesize, keysize) ==
    IF pagesize # 0 /\ pagesize % 512 # 0 THEN HAM_INV_PAGESIZE
    ELSE IF create_pagesize(pagesize) \div create_keysize(keysize) < 4 THEN HAM_INV_KEYSIZE
    ELSE HAM_SUCCESS

\* "initialize the header"
create_header(h, flags, pagesize, keysize) ==
    [h EXCEPT !.hdr = [@ EXCEPT !.magic = MAGIC, !.vmaj = HAM_VERSION_MAJ, !.vmin = HAM_VERSION_MIN,
                                !.vrev = HAM_VERSION_REV, !.serial = HAM_SERIALNO, !.flags = flags,
                                !.pagesize = create_pagesize(pagesize), !.keysize = create_keysize(keysize)],
              !.error = HAM_SUCCESS]

\* "create the backend" to the end of ham_create_ex
create_backend(h, S, file, fault) ==
    IF fault = "create_backend"
    THEN Result(HAM_INV_BACKEND, db_set_error(h, HAM_INV_BACKEND), S, file, <<Call("db_create_backend", HAM_INV_BACKEND)>>)
    ELSE IF fault = "be_create"
    THEN Result(HAM_OUT_OF_MEMORY, db_set_error(h, HAM_OUT_OF_MEMORY), S, file,
                <<Call("db_create_backend", HAM_SUCCESS), Call("be_create", HAM_OUT_OF_MEMORY)>>)
    ELSE LET S1 == be_create(S)
             h1 == [h EXCEPT !.backend = TRUE, !.hdr.root = S1.root]
             calls == <<Call("db_create_backend", HAM_SUCCESS), Call("be_create", HAM_SUCCESS)>>
         IN IF fault = "freel_create"
            THEN Result(HAM_OUT_OF_MEMORY, h1, S1, file, Append(calls, Call("freel_create", HAM_OUT_OF_MEMORY)))
            ELSE Result(HAM_SUCCESS, [h1 EXCEPT !.dirty = TRUE], freel_create(h1, S1), file,
                        Append(calls, Call("freel_create", HAM_SUCCESS)))

\* "create the file" and "allocate a database header page"
create_file(h, S, file, flags, fault) ==
    IF fault = "os_create"
    THEN Result(EIO, db_set_error(h, EIO), S, file, <<Call("os_create", EIO)>>)
    ELSE LET f1 == [NoFile EXCEPT !.exists = TRUE, !.ro = FALSE]
             h1 == [h EXCEPT !.fd = FILE_FD]
         IN IF fault = "alloc_page"
            THEN Result(HAM_OUT_OF_MEMORY, db_set_error(h1, HAM_OUT_OF_MEMORY), S, f1,
                        <<Call("os_create", HAM_SUCCESS), Call("db_alloc_page_struct", HAM_OUT_OF_MEMORY)>>)
            ELSE IF fault = "alloc_device"
            THEN Result(HAM_SHORT_WRITE, h1, S, f1,
                        <<Call("os_create", HAM_SUCCESS), Call("db_alloc_page_device", HAM_SHORT_WRITE)>>)
            ELSE Result(HAM_SUCCESS,
                        [h1 EXCEPT !.header_page = [present |-> TRUE, hdr |-> ZeroHdr, freel |-> <<>>, dirty |-> FALSE]],
                        S, [f1 EXCEPT !.len = 1],
                        <<Call("os_create", HAM_SUCCESS), Call("db_alloc_page_device", HAM_SUCCESS)>>)

ham_create_ex(h, S, file, flags, pagesize, keysize, fault) ==
    IF create_check(pagesize, keysize) # HAM_SUCCESS
    THEN Result(create_check(pagesize, keysize), h, S, file, <<>>)
    ELSE
    LET h1 == create_header(h, flags, pagesize, keysize)
        S1 == [EmptyStore EXCEPT !.len = 1]
    IN  IF fault = "cache_new"
        THEN Result(HAM_OUT_OF_MEMORY, db_set_error(h1, HAM_OUT_OF_MEMORY), S, file, <<Call("cache_new", HAM_OUT_OF_MEMORY)>>)
        ELSE
        LET h2 == [h1 EXCEPT !.cache = TRUE]
            f == IF HAM_IN_MEMORY_DB \notin flags
                 THEN create_file(h2, S1, file, flags, fault)
                 ELSE Result(HAM_SUCCESS, h2, S1, file, <<>>)
        IN  IF f.st # HAM_SUCCESS
            THEN [f EXCEPT !.calls = <<Call("cache_new", HAM_SUCCESS)>> \o @]
            ELSE LET b == create_backend(f.h, f.S, f.file, fault)
                 IN [b EXCEPT !.calls = <<Call("cache_new", HAM_SUCCESS)>> \o f.calls \o @]

(***************************************************************************)
(* ham_open.  The header of the handle is copied from the header page of    *)
(* the file; the flags argument goes to os_open and to the backend.         *)
(***************************************************************************)
\* a variant of open_check that looks at the version before the magic
open_check_version_first(hdr) ==
    IF hdr.vmaj # HAM_VERSION_MAJ \/ hdr.vmin # HAM_VERSION_MIN THEN HAM_INV_FILE_VERSION
    ELSE IF hdr.magic # MAGIC THEN HAM_INV_FILE_HEADER
    ELSE HAM_SUCCESS

\* "check the file magic" and "check the database version"
open_check(hdr) ==
    IF hdr.magic # MAGIC THEN HAM_INV_FILE_HEADER
    ELSE IF hdr.vmaj # HAM_VERSION_MAJ \/ hdr.vmin # HAM_VERSION_MIN THEN HAM_INV_FILE_VERSION
    ELSE HAM_SUCCESS

\* "create the backend" to the end of ham_open
open_backend(h, S, file, fault) ==
    IF fault = "create_backend"
    THEN Result(HAM_INV_BACKEND, db_set_error(h, HAM_INV_BACKEND), S, file, <<Call("db_create_backend", HAM_INV_BACKEND)>>)
    ELSE
    LET h1 == [h EXCEPT !.backend = TRUE]
        c1 == <<Call("db_create_backend", HAM_SUCCESS)>>
    IN  IF fault = "be_open"
        THEN Result(HAM_SHORT_READ, db_set_error(h1, HAM_SHORT_READ), S, file, Append(c1, Call("be_open", HAM_SHORT_READ)))
        ELSE
        LET S1 == [EmptyStore EXCEPT !.pages = file.pages, !.len = file.len, !.root = h1.hdr.root]
            c2 == Append(c1, Call("be_open", HAM_SUCCESS))
        IN  IF fault = "cache_new"
            THEN Result(HAM_OUT_OF_MEMORY, db_set_error(h1, HAM_OUT_OF_MEMORY), S1, file, Append(c2, Call("cache_new", HAM_OUT_OF_MEMORY)))
            ELSE
            LET h2 == [h1 EXCEPT !.cache = TRUE]
                c3 == Append(c2, Call("cache_new", HAM_SUCCESS))
            IN  IF fault = "freel_create"
                THEN Result(HAM_OUT_OF_MEMORY, h2, S1, file, Append(c3, Call("freel_create", HAM_OUT_OF_MEMORY)))
                ELSE Result(HAM_SUCCESS, h2, freel_create(h2, S1), file, Append(c3, Call("freel_create", HAM_SUCCESS)))

\* "read the database header" to the version check
open_header(h, S, file, fault) ==
    IF fault = "os_read" \/ file.len = 0
    THEN Result(HAM_SHORT_READ, db_set_error(h, HAM_SHORT_READ), S, file, <<Call("os_read", HAM_SHORT_READ)>>)
    ELSE
    LET h1 == [h EXCEPT !.hdr.pagesize = file.hp.hdr.pagesize]
    IN  IF fault = "alloc_page"
        THEN Result(HAM_OUT_OF_MEMORY, db_set_error(h1, HAM_OUT_OF_MEMORY), S, file,
                    <<Call("os_read", HAM_SUCCESS), Call("db_alloc_page_struct", HAM_OUT_OF_MEMORY)>>)
        ELSE IF fault = "fetch"
        THEN Result(HAM_SHORT_READ, h1, S, file,
                    <<Call("os_read", HAM_SUCCESS), Call("db_fetch_page_from_device", HAM_SHORT_READ)>>)
        ELSE
        LET h2 == [h1 EXCEPT !.header_page = [present |-> TRUE, hdr |-> file.hp.hdr, freel |-> file.hp.freel, dirty |-> FALSE],
                             !.hdr = file.hp.hdr]
            calls == <<Call("os_read", HAM_SUCCESS), Call("db_fetch_page_from_device", HAM_SUCCESS)>>
        IN  IF open_check(h2.hdr) # HAM_SUCCESS
            THEN Result(open_check(h2.hdr), db_set_error(h2, open_check(h2.hdr)), S, file, calls)
            ELSE Result(HAM_SUCCESS, h2, S, file, calls)

\* a variant of ham_open that opens the file whatever the flags are
ham_open_any_flags(h, S, file, flags, fault) ==
    IF fault = "os_open" \/ ~file.exists
    THEN Result(ENOENT, db_set_error(h, ENOENT), S, file, <<Call("os_open", ENOENT)>>)
    ELSE
    LET h1 == [h EXCEPT !.fd = FILE_FD, !.error = HAM_SUCCESS]
        r == open_header(h1, S, file, fault)
    IN  IF r.st # HAM_SUCCESS
        THEN [r EXCEPT !.calls = <<Call("os_open", HAM_SUCCESS)>> \o @]
        ELSE LET b == open_backend(r.h, r.S, r.file, fault)
             IN [b EXCEPT !.calls = <<Call("os_open", HAM_SUCCESS)>> \o r.calls \o @]

ham_open(h, S, file, flags, fault) ==
    IF HAM_IN_MEMORY_DB \in flags THEN Result(HAM_INV_PARAMETER, h, S, file, <<>>)
    ELSE IF fault = "os_open" \/ ~file.exists
    THEN Result(ENOENT, db_set_error(h, ENOENT), S, file, <<Call("os_open", ENOENT)>>)
    ELSE
    LET h1 == [h EXCEPT !.fd = FILE_FD, !.error = HAM_SUCCESS]
        f1 == [file EXCEPT !.ro = (HAM_READ_ONLY \in flags)]
        r == open_header(h1, S, f1, fault)
    IN  IF r.st # HAM_SUCCESS
        THEN [r EXCEPT !.calls = <<Call("os_open", HAM_SUCCESS)>> \o @]
        ELSE LET b == open_backend(r.h, r.S, r.file, fault)
             IN [b EXCEPT !.calls = <<Call("os_open", HAM_SUCCESS)>> \o r.calls \o @]

(***************************************************************************)
(* ham_close.  fault names the step that fails, or is "none"; ub is the     *)
(* outcome of the access to the payload of a header page that does not      *)
(* exist (page_get_payload of a NULL page): "crash" or "continue".          *)
(***************************************************************************)
\* a write through a descriptor that was opened read-only fails
dev_write_fails(file, fault, step) == fault = step \/ file.ro

\* "writes any pending state into the header payload"
freel_shutdown(h, S) ==
    IF h.header_page.present /\ h.header_page.freel # S.freel
    THEN [h EXCEPT !.header_page.freel = S.freel, !.header_page.dirty = TRUE]
    ELSE h

\* a variant of db_flush_all that writes the index pages and drops the blob pages
db_flush_all_no_blobs(S, file) ==
    [S |-> [S EXCEPT !.dirty = {}],
     file |-> [file EXCEPT !.pages = [i \in PageIds |-> IF i \in S.dirty /\ S.pages[i].type # "blob" THEN S.pages[i] ELSE @[i]],
                           !.len = S.len]]

\* every dirty page is written through the device
db_flush_all(S, file) ==
    [S |-> [S EXCEPT !.dirty = {}],
     file |-> [file EXCEPT !.pages = [i \in PageIds |-> IF i \in S.dirty THEN S.pages[i] ELSE @[i]], !.len = S.len]]

db_write_page_to_device(h, file) ==
    [h |-> [h EXCEPT !.header_page.dirty = FALSE],
     file |-> [file EXCEPT !.hp = [hdr |-> h.header_page.hdr, freel |-> h.header_page.freel]]]

\* a variant of close_update_header that leaves the key size out of the copy
close_update_header_without_keysize(h) ==
    IF h.dirty THEN [h EXCEPT !.header_page.hdr = [h.hdr EXCEPT !.keysize = 0], !.header_page.dirty = TRUE] ELSE h

\* a variant of close_update_header that leaves the root page id out of the copy
close_update_header_without_root(h) ==
    IF h.dirty THEN [h EXCEPT !.header_page.hdr = [h.hdr EXCEPT !.root = 0], !.header_page.dirty = TRUE] ELSE h

\* "update the header page, if necessary"
close_update_header(h) ==
    IF h.dirty THEN [h EXCEPT !.header_page.hdr = h.hdr, !.header_page.dirty = TRUE] ELSE h

\* whether ham_close writes the header page itself
close_writes_header(h) ==
    /\ HAM_IN_MEMORY_DB \notin h.hdr.flags
    /\ db_is_open(h)
    /\ HAM_READ_ONLY \notin h.hdr.flags
    /\ h.dirty

\* a variant of close_backend_file that goes on to close the file when the backend fails
close_backend_file_goes_on(h, S, file, fault, calls) ==
    Result(HAM_SUCCESS, [h EXCEPT !.fd = INVALID_FD], S, file,
           calls \o <<Call("be_close", IF fault = "be_close" THEN HAM_SHORT_WRITE ELSE HAM_SUCCESS),
                      Call("os_close", HAM_SUCCESS)>>)

\* "close the backend" and "close the file"; the status of os_close is dropped
close_backend_file(h, S, file, fault, calls) ==
    IF h.backend /\ fault = "be_close"
    THEN Result(HAM_SHORT_WRITE, h, S, file, Append(calls, Call("be_close", HAM_SHORT_WRITE)))
    ELSE
    LET c1 == IF h.backend THEN Append(calls, Call("be_close", HAM_SUCCESS)) ELSE calls
    IN  IF HAM_IN_MEMORY_DB \notin h.hdr.flags /\ db_is_open(h)
        THEN Result(HAM_SUCCESS, [h EXCEPT !.fd = INVALID_FD], S, file,
                    Append(c1, Call("os_close", IF fault = "os_close" THEN EIO ELSE HAM_SUCCESS)))
        ELSE Result(HAM_SUCCESS, h, S, file, c1)

\* "flush the freelist" to the write of the header page
close_flush(h, S, file, fault, calls) ==
    IF fault = "freel_shutdown"
    THEN Result(HAM_SHORT_WRITE, h, S, file, Append(calls, Call("freel_shutdown", HAM_SHORT_WRITE)))
    ELSE
    LET h1 == freel_shutdown(h, S)
        c1 == Append(calls, Call("freel_shutdown", HAM_SUCCESS))
        flushfails == fault = "db_flush_all" \/ (S.dirty # {} /\ file.ro /\ HAM_IN_MEMORY_DB \notin h.hdr.flags)
    IN  IF flushfails
        THEN Result(HAM_SHORT_WRITE, h1, S, file, Append(c1, Call("db_flush_all", HAM_SHORT_WRITE)))
        ELSE
        LET fl == IF HAM_IN_MEMORY_DB \in h.hdr.flags THEN [S |-> S, file |-> file] ELSE db_flush_all(S, file)
            c2 == Append(c1, Call("db_flush_all", HAM_SUCCESS))
        IN  IF ~close_writes_header(h1)
            THEN close_backend_file(h1, fl.S, fl.file, fault, c2)
            ELSE IF dev_write_fails(fl.file, fault, "db_write_page_to_device")
            THEN Result(HAM_SHORT_WRITE, h1, fl.S, fl.file, Append(c2, Call("db_write_page_to_device", HAM_SHORT_WRITE)))
            ELSE LET w == db_write_page_to_device(h1, fl.file)
                 IN close_backend_file(w.h, fl.S, w.file, fault, Append(c2, Call("db_write_page_to_device", HAM_SUCCESS)))

\* a variant of ham_close that closes the backend before it persists the freelist
ham_close_backend_first(h, S, file, fault, ub) ==
    IF h.backend /\ fault = "be_close"
    THEN Result(HAM_SHORT_WRITE, h, S, file, <<Call("be_close", HAM_SHORT_WRITE)>>)
    ELSE close_flush(close_update_header(h), S, file, fault, <<Call("be_close", HAM_SUCCESS)>>)

ham_close(h, S, file, fault, ub) ==
    IF h.dirty /\ ~h.header_page.present
    THEN IF ub = "crash"
         THEN Result("crash", h, S, file, <<Call("update_header", "crash")>>)
         ELSE close_flush(h, S, file, fault, <<Call("update_header", HAM_SUCCESS)>>)
    ELSE IF h.dirty
    THEN close_flush(close_update_header(h), S, file, fault, <<Call("update_header", HAM_SUCCESS)>>)
    ELSE close_flush(h, S, file, fault, <<>>)

ham_new == NewHandle

(***************************************************************************)
(* Transactions.  A transaction scopes one operation; abort discards the    *)
(* in-memory changes the operation made, commit keeps them.                 *)
(***************************************************************************)
\* a variant of ham_txn_abort that keeps the changes of the operation
ham_txn_abort_keeps(S0, S1) == S1

\* S0: the store when the transaction began, S1: the store now
ham_txn_abort(S0, S1) == S0
ham_txn_commit(S0, S1) == S1

\* a variant of txn_finish that commits whatever the status is
txn_finish_commits(st, h, S0, S1, file, calls) ==
    Result(st, h, S1, file, Append(calls, Call("ham_txn_commit", HAM_SUCCESS)))

\* "if (st) { (void)ham_txn_abort(&txn); return (st); } return (ham_txn_commit(&txn));"
txn_finish(st, h, S0, S1, file, calls) ==
    IF st # HAM_SUCCESS
    THEN Result(st, h, ham_txn_abort(S0, S1), file, Append(calls, Call("ham_txn_abort", HAM_SUCCESS)))
    ELSE Result(HAM_SUCCESS, h, ham_txn_commit(S0, S1), file, Append(calls, Call("ham_txn_commit", HAM_SUCCESS)))

\* the backend owns the root page id: a new root goes to the header, which becomes dirty
be_sync_root(h, S) ==
    IF S.root # h.hdr.root THEN [h EXCEPT !.hdr.root = S.root, !.dirty = TRUE] ELSE h

(***************************************************************************)
(* ham_find.  record is the caller's ham_record_t (null: no record was      *)
(* passed).  fault: "none", a fault of btree_find, "alloc" (ham_mem_alloc   *)
(* returns 0) or "blob_read".                                               *)
(***************************************************************************)
BlankRecord(flags) == [null |-> FALSE, size |-> 0, data |-> NoData, rid |-> ZeroRid, intflags |-> {}, flags |-> flags]
NullRecord == [BlankRecord({}) EXCEPT !.null = TRUE]
WithRecord(r, record) == [st |-> r.st, h |-> r.h, S |-> r.S, file |-> r.file, calls |-> r.calls, record |-> record]

\* the size ham_find reads from the flags and the record pointer
find_size(record) ==
    IF KEY_BLOB_SIZE_TINY \in record.intflags THEN record.rid[SIZEOF_OFFSET]
    ELSE IF KEY_BLOB_SIZE_SMALL \in record.intflags THEN SIZEOF_OFFSET
    ELSE IF KEY_BLOB_SIZE_EMPTY \in record.intflags THEN 0
    ELSE record.size

find_noblob(record) == record.intflags \cap {KEY_BLOB_SIZE_TINY, KEY_BLOB_SIZE_SMALL, KEY_BLOB_SIZE_EMPTY} # {}

\* the branch "if (noblob && record->size>0)": the record is copied out of the record pointer
find_inline(h, record, fault) ==
    LET grow == HAM_RECORD_USER_ALLOC \notin record.flags /\ record.size > h.allocsize
        st == IF grow /\ fault = "alloc" THEN HAM_OUT_OF_MEMORY ELSE HAM_SUCCESS
        h1 == IF ~grow THEN h ELSE [h EXCEPT !.allocsize = IF st = HAM_SUCCESS THEN record.size ELSE 0]
    IN [st |-> st, h |-> h1,
        record |-> IF st = HAM_SUCCESS THEN [record EXCEPT !.data = SubSeq(record.rid, 1, record.size)] ELSE record]

\* the branch "else st=blob_read(...)"
find_blob(h, S, record, fault) ==
    LET b == blob_read(S, FromRid(record.rid), fault = "blob_read")
    IN [st |-> b.st, h |-> h,
        record |-> IF b.st = HAM_SUCCESS THEN [record EXCEPT !.size = Len(b.data), !.data = b.data] ELSE record]

\* the end of ham_find; d is the outcome of the copy or of blob_read
find_blob_finish(h, S, file, sized, calls, d) ==
    WithRecord(txn_finish(d.st, d.h, S, S, file, Append(calls, Call("blob_read", d.st))), d.record)

find_finish(S, file, calls, d) == WithRecord(txn_finish(d.st, d.h, S, S, file, calls), d.record)

\* "success!": the record is decoded from the record pointer or read from the blob store
find_record(h, S, file, sized, calls, fault) ==
    IF find_noblob(sized) /\ sized.size > 0
    THEN find_finish(S, file, calls, find_inline(h, sized, fault))
    ELSE find_blob_finish(h, S, file, sized, calls, find_blob(h, S, sized, fault))

\* bf is the outcome of the backend's find
find_backend(h, S, file, bf, fault) ==
    IF bf.st # HAM_SUCCESS
    THEN WithRecord(txn_finish(bf.st, db_set_error(h, bf.err), S, S, file,
                               <<Call("ham_txn_begin", HAM_SUCCESS), Call("be_find", bf.st)>>), bf.record)
    ELSE find_record(db_set_error(h, bf.err), S, file, [bf.record EXCEPT !.size = find_size(bf.record)],
                     <<Call("ham_txn_begin", HAM_SUCCESS), Call("be_find", bf.st)>>, fault)

ham_find(h, S, file, key, record, fault) ==
    IF ~h.backend THEN WithRecord(Result(HAM_INV_BACKEND, h, S, file, <<>>), record)
    ELSE IF record.null THEN WithRecord(Result(HAM_INV_PARAMETER, h, S, file, <<>>), record)
    ELSE find_backend(h, S, file, btree_find(S, key, record, fault), fault)

(***************************************************************************)
(* ham_insert and ham_erase.  fault: "none", "be_insert", "be_erase" or     *)
(* "blob_free".  The backend functions follow btree_find: they clear the    *)
(* handle's error on entry and record the status they fail with.            *)
(***************************************************************************)
\* a variant of insert_check without the check of HAM_DISABLE_VAR_KEYLEN
insert_check_any_keylen(h, key) ==
    IF ~h.backend THEN HAM_INV_BACKEND
    ELSE IF HAM_READ_ONLY \in h.hdr.flags THEN HAM_DB_READ_ONLY
    ELSE IF h.hdr.keysize <= SIZEOF_OFFSET /\ KeyLen(key) > h.hdr.keysize THEN HAM_INV_KEYSIZE
    ELSE HAM_SUCCESS

\* a variant of insert_check without the check of key sizes up to sizeof(ham_offset_t)
insert_check_any_keysize(h, key) ==
    IF ~h.backend THEN HAM_INV_BACKEND
    ELSE IF HAM_READ_ONLY \in h.hdr.flags THEN HAM_DB_READ_ONLY
    ELSE IF HAM_DISABLE_VAR_KEYLEN \in h.hdr.flags /\ KeyLen(key) > h.hdr.keysize THEN HAM_INV_KEYSIZE
    ELSE HAM_SUCCESS

\* the checks of ham_insert before the transaction begins
insert_check(h, key) ==
    IF ~h.backend THEN HAM_INV_BACKEND
    ELSE IF HAM_READ_ONLY \in h.hdr.flags THEN HAM_DB_READ_ONLY
    ELSE IF HAM_DISABLE_VAR_KEYLEN \in h.hdr.flags /\ KeyLen(key) > h.hdr.keysize THEN HAM_INV_KEYSIZE
    ELSE IF h.hdr.keysize <= SIZEOF_OFFSET /\ KeyLen(key) > h.hdr.keysize THEN HAM_INV_KEYSIZE
    ELSE HAM_SUCCESS

\* b is the outcome of the backend's insert
insert_backend(h, S, file, b) ==
    LET r == txn_finish(b.st, db_set_error(h, b.st), S, b.S, file,
                        <<Call("ham_txn_begin", HAM_SUCCESS), Call("be_insert", b.st)>>)
    IN [r EXCEPT !.h = be_sync_root(@, r.S)]

ham_insert(h, S, file, key, rec, fault) ==
    IF insert_check(h, key) # HAM_SUCCESS THEN Result(insert_check(h, key), h, S, file, <<>>)
    ELSE insert_backend(h, S, file, btree_insert(S, key, rec, fault = "be_insert"))

\* the checks of ham_erase before the transaction begins
erase_check(h) ==
    IF ~h.backend THEN HAM_INV_BACKEND
    ELSE IF HAM_READ_ONLY \in h.hdr.flags THEN HAM_DB_READ_ONLY
    ELSE HAM_SUCCESS

\* a variant of erase_frees_blob that never frees
erase_frees_blob_never(intflags) == FALSE

\* whether ham_erase hands the record pointer to blob_free
erase_frees_blob(intflags) ==
    ~(KEY_BLOB_SIZE_TINY \in intflags \/ KEY_BLOB_SIZE_SMALL \in intflags \/ KEY_BLOB_SIZE_EMPTY \in intflags)

\* the end of ham_erase; f is the outcome of blob_free, or of the backend if no blob is freed
erase_finish(h, S, file, calls, f) ==
    LET r == txn_finish(f.st, h, S, f.S, file, calls)
    IN [r EXCEPT !.h = be_sync_root(@, r.S)]

\* f is the outcome of blob_free
erase_blob(h, S, file, calls, f) == erase_finish(h, S, file, Append(calls, Call("blob_free", f.st)), f)

\* "get rid of the index entry, then free the blob"; b is the outcome of the backend's erase
erase_backend(h, S, file, b, fault) ==
    IF b.st = HAM_SUCCESS /\ erase_frees_blob(b.intflags)
    THEN erase_blob(db_set_error(h, b.st), S, file, <<Call("ham_txn_begin", HAM_SUCCESS), Call("be_erase", b.st)>>,
                    blob_free(b.S, FromRid(b.blobid), fault = "blob_free"))
    ELSE erase_finish(db_set_error(h, b.st), S, file, <<Call("ham_txn_begin", HAM_SUCCESS), Call("be_erase", b.st)>>,
                      [st |-> b.st, S |-> b.S])

ham_erase(h, S, file, key, fault) ==
    IF erase_check(h) # HAM_SUCCESS THEN Result(erase_check(h), h, S, file, <<>>)
    ELSE erase_backend(h, S, file, btree_erase(S, key, fault = "be_erase"), fault)

(***************************************************************************)
(* ham_dump, ham_check_integrity, ham_flush.                                *)
(***************************************************************************)
\* fault: "none" or "be_dump"
ham_dump(h, S, file, fault) ==
    IF ~h.backend THEN Result(HAM_INV_BACKEND, h, S, file, <<>>)
    ELSE LET st == IF fault = "be_dump" THEN HAM_SHORT_READ ELSE HAM_SUCCESS
         IN txn_finish(st, h, S, S, file, <<Call("ham_txn_begin", HAM_SUCCESS), Call("be_dump", st)>>)

\* fault: "none", "cache_check_integrity" or "be_check_integrity"
ham_check_integrity(h, S, file, fault) ==
    IF fault = "cache_check_integrity"
    THEN Result(HAM_INTEGRITY_VIOLATED, h, S, file, <<Call("cache_check_integrity", HAM_INTEGRITY_VIOLATED)>>)
    ELSE
    LET c0 == <<Call("cache_check_integrity", HAM_SUCCESS)>>
    IN  IF ~h.backend THEN Result(HAM_INV_BACKEND, h, S, file, c0)
        ELSE LET st == IF fault = "be_check_integrity" THEN HAM_INTEGRITY_VIOLATED ELSE HAM_SUCCESS
             IN txn_finish(st, h, S, S, file, c0 \o <<Call("ham_txn_begin", HAM_SUCCESS), Call("be_check_integrity", st)>>)

\* fault: "none" or "db_flush_all"
ham_flush(h, S, file, fault) ==
    IF HAM_IN_MEMORY_DB \in h.hdr.flags THEN Result(HAM_SUCCESS, h, S, file, <<Call("db_flush_all", HAM_SUCCESS)>>)
    ELSE IF fault = "db_flush_all" \/ (S.dirty # {} /\ file.ro)
    THEN Result(HAM_SHORT_WRITE, h, S, file, <<Call("db_flush_all", HAM_SHORT_WRITE)>>)
    ELSE LET fl == db_flush_all(S, file)
         IN Result(HAM_SUCCESS, h, fl.S, fl.file, <<Call("db_flush_all", HAM_SUCCESS)>>)

(***************************************************************************)
(* The state of the system.                                                 *)
(*   h       the database handle                                            *)
(*   S       the engine's pages, freelist and root                          *)
(*   file    the file on disk                                               *)
(*   phase   where the handle is in its life: "none" (no handle), "new"     *)
(*           (after ham_new), "open", "closed", "failed" (a create, open or *)
(*           close failed), "crashed"                                       *)
(*   ret     the last API call: its name, arguments, status and the calls   *)
(*           it made to the layers below, in order                          *)
(*   hist    per key, the last successful insert or erase since the         *)
(*           database was created (unknown after an open)                   *)
(*   snap    what find returned for every key when the file was last        *)
(*           closed successfully, the header and the freelist at that       *)
(*           close, and whether the close came right after the create       *)
(*   oflags  the flags argument of the create or open of this handle        *)
(*   nops    the number of calls so far that count for MaxOps               *)
(*   nreads  the number of calls so far that count for MaxReads             *)
(***************************************************************************)
VARIABLES h, S, file, phase, ret, hist, snap, oflags, nops, nreads

dbvars == <<h, S, file, phase, ret, hist, snap, oflags, nops, nreads>>

(***************************************************************************)
(* Db::key_arena and Db::record_arena.  A transaction is null (no           *)
(* transaction was passed) or carries flags and its own two arenas; the     *)
(* database has its own two (_key_arena, _record_arena).  Each function     *)
(* returns a reference to one arena, named here by its owner and member.    *)
(*   txn              the transaction the caller passes                     *)
(*   db_key_arena     Db::_key_arena                                        *)
(*   db_record_arena  Db::_record_arena                                     *)
(*   created          the last ham_create_ex of a new handle with given     *)
(*                    sizes: the arguments, the status, the header it left  *)
(*   found            the last btree_find on a tree of its own: the tree,   *)
(*                    the key, the caller's record, the fault, the result   *)
(***************************************************************************)
VARIABLES txn, db_key_arena, db_record_arena, created, found

pvars == <<txn, db_key_arena, db_record_arena, created, found>>
vars == <<dbvars, pvars>>

UPS_TXN_TEMPORARY == "UPS_TXN_TEMPORARY"
EmptyArena == <<>>
NullTxn == [null |-> TRUE, flags |-> {}, key_arena |-> EmptyArena, record_arena |-> EmptyArena]

\* a variant of key_arena that looks only at whether there is a transaction
key_arena_of_any_txn(t) == IF t.null THEN "_key_arena" ELSE "txn->key_arena"

\* "(txn == 0 || isset(txn->flags, UPS_TXN_TEMPORARY)) ? _key_arena : txn->key_arena"
key_arena(t) == IF t.null \/ UPS_TXN_TEMPORARY \in t.flags THEN "_key_arena" ELSE "txn->key_arena"

\* "(txn == 0 || isset(txn->flags, UPS_TXN_TEMPORARY)) ? _record_arena : txn->record_arena"
record_arena(t) == IF t.null \/ UPS_TXN_TEMPORARY \in t.flags THEN "_record_arena" ELSE "txn->record_arena"

NoCreate == [pagesize |-> 0, keysize |-> 0, st |-> "none", hdr |-> ZeroHdr]

\* what ham_find returns for every key, without faults
Contents(hh, SS, ff) ==
    [k \in Keys |-> LET r == ham_find(hh, SS, ff, k, BlankRecord({}), "none")
                    IN [st |-> r.st, size |-> IF r.st = HAM_SUCCESS THEN r.record.size ELSE 0,
                        data |-> IF r.st = HAM_SUCCESS THEN r.record.data ELSE NoData]]

Ret(op, st, key, rec, record, fault, calls, err) ==
    [op |-> op, st |-> st, key |-> key, rec |-> rec, record |-> record, fault |-> fault, calls |-> calls, err |-> err]
NoRet == Ret("none", HAM_SUCCESS, 0, NoData, BlankRecord({}), "none", <<>>, HAM_SUCCESS)

Unknown == [known |-> FALSE, present |-> FALSE, rec |-> NoData]
Absent == [known |-> TRUE, present |-> FALSE, rec |-> NoData]
Present(rec) == [known |-> TRUE, present |-> TRUE, rec |-> rec]
NoSnap == [valid |-> FALSE, c |-> [k \in Keys |-> [st |-> HAM_KEY_NOT_FOUND, size |-> 0, data |-> NoData]],
           fresh |-> FALSE, hdr |-> ZeroHdr, freel |-> <<>>]

\* the pages an insert allocates: a blob page, a sibling for a full leaf, a new root
InsertNeeds(SS, key, rec) ==
    LET leafid == LeafOf(SS, SS.root, key)
        leaf == SS.pages[leafid]
    IN  IF key \in SlotKeys(leaf.slots) THEN 0
        ELSE (IF Len(rec) > SIZEOF_OFFSET THEN 1 ELSE 0)
             + (IF Len(leaf.slots) < MaxKeysPerPage THEN 0 ELSE IF leafid = SS.root THEN 2 ELSE 1)

Init ==
    /\ h = NewHandle
    /\ S = EmptyStore
    /\ file = NoFile
    /\ phase = "none"
    /\ ret = NoRet
    /\ hist = [k \in Keys |-> Unknown]
    /\ snap = NoSnap
    /\ oflags = {}
    /\ nops = 0
    /\ nreads = 0
    /\ txn = NullTxn
    /\ db_key_arena = EmptyArena
    /\ db_record_arena = EmptyArena
    /\ created = NoCreate
    /\ found = [called |-> FALSE]

(***************************************************************************)
(* Inputs.                                                                  *)
(***************************************************************************)
CreateFlagSets == {{}, {HAM_DISABLE_VAR_KEYLEN}, {HAM_IN_MEMORY_DB}, {HAM_READ_ONLY},
                   {HAM_READ_ONLY, HAM_DISABLE_VAR_KEYLEN}}
\* <<pagesize, keysize>>: the defaults, a small key size, and rejected sizes
CreateArgs == {<<0, 0>>, <<512, 8>>, <<1000, 0>>, <<1000, 200>>, <<512, 200>>, <<512, 129>>, <<0, 1025>>}
\* the flag sets are combined with the default sizes, the other sizes with no flag
CreateInputs == {<<f, <<0, 0>>>> : f \in CreateFlagSets} \cup {<<{}, a>> : a \in CreateArgs}
CreateFaults == {"none", "cache_new", "os_create", "alloc_page", "alloc_device", "create_backend", "be_create", "freel_create"}
OpenFlagSets == {{}, {HAM_READ_ONLY}, {HAM_IN_MEMORY_DB}}
OpenFaults == {"none", "os_open", "os_read", "alloc_page", "fetch", "create_backend", "be_open", "cache_new", "freel_create"}
FindFaults == {"none", "fetch", "traverse", "search", "alloc", "blob_read"}
FindRecords == {BlankRecord({}), NullRecord}
InsertFaults == {"none", "be_insert"}
EraseFaults == {"none", "be_erase", "blob_free"}
DumpFaults == {"none", "be_dump"}
CheckFaults == {"none", "cache_check_integrity", "be_check_integrity"}
FlushFaults == {"none", "db_flush_all"}
CloseFaults == {"none", "freel_shutdown", "db_flush_all", "db_write_page_to_device", "be_close", "os_close"}
\* what an editor of the file's header bytes can leave behind
BadMagic == <<88, 88, 88, 0>>
Corruptions == {"magic", "major", "minor", "magic_major"}

(***************************************************************************)
(* Actions: one per API call.                                               *)
(***************************************************************************)
HamNew ==
    /\ UNCHANGED pvars
    /\ phase = "none"
    /\ h' = ham_new
    /\ S' = EmptyStore
    /\ phase' = "new"
    /\ ret' = Ret("new", HAM_SUCCESS, 0, NoData, BlankRecord({}), "none", <<>>, HAM_SUCCESS)
    /\ UNCHANGED <<file, hist, snap, oflags, nops, nreads>>

\* ham_delete frees the handle and what hangs on it
HamDelete ==
    /\ UNCHANGED pvars
    /\ phase \in {"new", "closed", "failed"}
    /\ h' = NewHandle
    /\ S' = EmptyStore
    /\ phase' = "none"
    /\ ret' = Ret("delete", HAM_SUCCESS, 0, NoData, BlankRecord({}), "none", <<>>, HAM_SUCCESS)
    /\ UNCHANGED <<file, hist, snap, oflags, nops, nreads>>

HamCreate ==
    /\ UNCHANGED pvars
    /\ phase = "new"
    /\ nops < MaxOps
    /\ nreads = 0
    /\ \E in \in CreateInputs, fault \in CreateFaults :
         LET flags == in[1]
             args == in[2]
             r == ham_create_ex(h, S, file, flags, args[1], args[2], fault)
         IN /\ fault = "none" \/ r # ham_create_ex(h, S, file, flags, args[1], args[2], "none")
            /\ h' = r.h
            /\ S' = r.S
            /\ file' = r.file
            /\ phase' = IF r.st = HAM_SUCCESS THEN "open" ELSE "failed"
            /\ ret' = Ret("create", r.st, args[1], <<args[2]>>, BlankRecord({}), fault, r.calls, r.h.error)
            /\ hist' = IF r.st = HAM_SUCCESS THEN [k \in Keys |-> Absent] ELSE [k \in Keys |-> Unknown]
            /\ snap' = IF r.file # file THEN NoSnap ELSE snap
            /\ oflags' = flags
    /\ nops' = nops + 1
    /\ UNCHANGED nreads

\* the file is absent, empty, or one that a successful close has written
HamOpen ==
    /\ UNCHANGED pvars
    /\ phase = "new"
    /\ nops < MaxOps
    /\ nreads = 0
    /\ file.exists => (file.len = 0 \/ (file.hp.hdr.pagesize # 0 /\ ~file.torn))
    /\ \E flags \in OpenFlagSets, fault \in OpenFaults :
         LET r == ham_open(h, S, file, flags, fault)
         IN /\ fault = "none" \/ r # ham_open(h, S, file, flags, "none")
            /\ h' = r.h
            /\ S' = r.S
            /\ file' = r.file
            /\ phase' = IF r.st = HAM_SUCCESS THEN "open" ELSE "failed"
            /\ ret' = Ret("open", r.st, 0, NoData, BlankRecord({}), fault, r.calls, r.h.error)
            /\ oflags' = flags
    /\ hist' = [k \in Keys |-> Unknown]
    /\ nops' = nops + 1
    /\ UNCHANGED <<snap, nreads>>

HamFind ==
    /\ UNCHANGED pvars
    /\ phase = "open"
    /\ nreads < MaxReads
    /\ \E key \in Keys, record \in FindRecords, fault \in FindFaults :
         LET r == ham_find(h, S, file, key, record, fault)
         IN /\ fault = "none" \/ r # ham_find(h, S, file, key, record, "none")
            /\ h' = r.h
            /\ S' = r.S
            /\ file' = r.file
            /\ ret' = Ret("find", r.st, key, NoData, r.record, fault, r.calls, r.h.error)
    /\ nreads' = nreads + 1
    /\ UNCHANGED <<phase, hist, snap, oflags, nops>>

HamInsert ==
    /\ UNCHANGED pvars
    /\ phase = "open"
    /\ nops < MaxOps
    /\ nreads = 0
    /\ \E key \in Keys, rec \in Records, fault \in InsertFaults :
         LET r == ham_insert(h, S, file, key, rec, fault)
         IN /\ insert_check(h, key) = HAM_SUCCESS => InsertNeeds(S, key, rec) <= FreeCapacity(S)
            /\ fault = "none" \/ r # ham_insert(h, S, file, key, rec, "none")
            /\ h' = r.h
            /\ S' = r.S
            /\ file' = r.file
            /\ ret' = Ret("insert", r.st, key, rec, BlankRecord({}), fault, r.calls, r.h.error)
            /\ hist' = IF r.st = HAM_SUCCESS THEN [hist EXCEPT ![key] = Present(rec)] ELSE hist
    /\ nops' = nops + 1
    /\ UNCHANGED <<phase, snap, oflags, nreads>>

HamErase ==
    /\ UNCHANGED pvars
    /\ phase = "open"
    /\ nops < MaxOps
    /\ nreads = 0
    /\ \E key \in Keys, fault \in EraseFaults :
         LET r == ham_erase(h, S, file, key, fault)
         IN /\ fault = "none" \/ r # ham_erase(h, S, file, key, "none")
            /\ h' = r.h
            /\ S' = r.S
            /\ file' = r.file
            /\ ret' = Ret("erase", r.st, key, NoData, BlankRecord({}), fault, r.calls, r.h.error)
            /\ hist' = IF r.st = HAM_SUCCESS THEN [hist EXCEPT ![key] = Absent] ELSE hist
    /\ nops' = nops + 1
    /\ UNCHANGED <<phase, snap, oflags, nreads>>

HamDump ==
    /\ UNCHANGED pvars
    /\ phase \in {"new", "open"}
    /\ nreads < MaxReads
    /\ \E fault \in DumpFaults :
         LET r == ham_dump(h, S, file, fault)
         IN /\ fault = "none" \/ r # ham_dump(h, S, file, "none")
            /\ ret' = Ret("dump", r.st, 0, NoData, BlankRecord({}), fault, r.calls, r.h.error)
    /\ nreads' = nreads + 1
    /\ UNCHANGED <<h, S, file, phase, hist, snap, oflags, nops>>

HamCheckIntegrity ==
    /\ UNCHANGED pvars
    /\ phase = "open"
    /\ nreads < MaxReads
    /\ \E fault \in CheckFaults :
         LET r == ham_check_integrity(h, S, file, fault)
         IN /\ fault = "none" \/ r # ham_check_integrity(h, S, file, "none")
            /\ ret' = Ret("check_integrity", r.st, 0, NoData, BlankRecord({}), fault, r.calls, r.h.error)
    /\ nreads' = nreads + 1
    /\ UNCHANGED <<h, S, file, phase, hist, snap, oflags, nops>>

HamFlush ==
    /\ UNCHANGED pvars
    /\ phase = "open"
    /\ nops < MaxOps
    /\ nreads = 0
    /\ \E fault \in FlushFaults :
         LET r == ham_flush(h, S, file, fault)
         IN /\ fault = "none" \/ r # ham_flush(h, S, file, "none")
            /\ S' = r.S
            /\ file' = r.file
            /\ ret' = Ret("flush", r.st, 0, NoData, BlankRecord({}), fault, r.calls, r.h.error)
    /\ nops' = nops + 1
    /\ UNCHANGED <<h, phase, hist, snap, oflags, nreads>>

\* ub: what the access to the payload of a missing header page does
HamClose ==
    /\ UNCHANGED pvars
    /\ phase = "open"
    /\ nops < MaxOps
    /\ \E fault \in CloseFaults, ub \in {"continue", "crash"} :
         LET r == ham_close(h, S, file, fault, ub)
             inmem == HAM_IN_MEMORY_DB \in h.hdr.flags
         IN /\ fault = "none" \/ r # ham_close(h, S, file, "none", ub)
            /\ ub = "continue" \/ r # ham_close(h, S, file, fault, "continue")
            /\ h' = r.h
            /\ S' = r.S
            /\ file' = IF r.st # HAM_SUCCESS /\ ~inmem THEN [r.file EXCEPT !.torn = TRUE] ELSE r.file
            /\ phase' = IF r.st = HAM_SUCCESS THEN "closed" ELSE IF r.st = "crash" THEN "crashed" ELSE "failed"
            /\ ret' = Ret("close", r.st, 0, NoData, BlankRecord({}), fault, r.calls, r.h.error)
            /\ snap' = IF inmem THEN snap
                       ELSE IF r.st = HAM_SUCCESS
                       THEN [valid |-> TRUE, c |-> Contents(h, S, file),
                             fresh |-> ret.op = "create", hdr |-> h.hdr, freel |-> S.freel]
                       ELSE NoSnap
    /\ nops' = nops + 1
    /\ UNCHANGED <<hist, oflags, nreads>>

\* the environment overwrites the magic or the version bytes of a closed file
Corrupt ==
    /\ UNCHANGED pvars
    /\ phase = "none"
    /\ nops < MaxOps
    /\ nreads = 0
    /\ file.exists /\ ~file.torn /\ open_check(file.hp.hdr) = HAM_SUCCESS
    /\ \E c \in Corruptions :
         file' = [file EXCEPT !.hp.hdr.magic = IF c \in {"magic", "magic_major"} THEN BadMagic ELSE @,
                              !.hp.hdr.vmaj = IF c \in {"major", "magic_major"} THEN HAM_VERSION_MAJ + 1 ELSE @,
                              !.hp.hdr.vmin = IF c = "minor" THEN HAM_VERSION_MIN + 1 ELSE @]
    /\ snap' = NoSnap
    /\ ret' = Ret("corrupt", HAM_SUCCESS, 0, NoData, BlankRecord({}), "none", <<>>, HAM_SUCCESS)
    /\ nops' = nops + 1
    /\ UNCHANGED <<h, S, phase, hist, oflags, nreads>>

Next ==
    \/ HamNew
    \/ HamDelete
    \/ HamCreate
    \/ HamOpen
    \/ HamFind
    \/ HamInsert
    \/ HamErase
    \/ HamDump
    \/ HamCheckIntegrity
    \/ HamFlush
    \/ HamClose
    \/ Corrupt

Spec == Init /\ [][Next]_vars

(***************************************************************************)
(* The functions of sizes and of transactions on their own: the callers of  *)
(* key_arena and record_arena write what they return a reference to, and    *)
(* ham_create_ex is called on a new handle with page and key sizes of the   *)
(* 16-bit range.                                                            *)
(***************************************************************************)
TxnFlagSets == {{}, {UPS_TXN_TEMPORARY}}
ArenaData == {<<1>>, <<2>>}
PageSizes == {0, 512, 1000, 1024, 4096, 65024}
KeySizes == {0, 1, 8, 19, 128, 129, 200, 1024, 1025, 16256, 65535}

TxnBegin ==
    /\ txn.null
    /\ \E flags \in TxnFlagSets : txn' = [NullTxn EXCEPT !.null = FALSE, !.flags = flags]
    /\ UNCHANGED <<dbvars, db_key_arena, db_record_arena, created, found>>

TxnEnd ==
    /\ ~txn.null
    /\ txn' = NullTxn
    /\ UNCHANGED <<dbvars, db_key_arena, db_record_arena, created, found>>

\* an operation stores a key in key_arena(txn) and a record in record_arena(txn)
ArenaWrite ==
    /\ \E k \in ArenaData, r \in ArenaData :
         /\ db_key_arena' = IF key_arena(txn) = "_key_arena" THEN k ELSE db_key_arena
         /\ db_record_arena' = IF record_arena(txn) = "_record_arena" THEN r ELSE db_record_arena
         /\ txn' = [txn EXCEPT !.key_arena = IF key_arena(txn) = "txn->key_arena" THEN k ELSE @,
                               !.record_arena = IF record_arena(txn) = "txn->record_arena" THEN r ELSE @]
    /\ UNCHANGED <<dbvars, created, found>>

HamCreateSizes ==
    /\ \E pagesize \in PageSizes, keysize \in KeySizes :
         LET r == ham_create_ex(NewHandle, EmptyStore, NoFile, {}, pagesize, keysize, "none")
         IN created' = [pagesize |-> pagesize, keysize |-> keysize, st |-> r.st, hdr |-> r.h.hdr]
    /\ UNCHANGED <<dbvars, txn, db_key_arena, db_record_arena, found>>

NextPure ==
    \/ TxnBegin
    \/ TxnEnd
    \/ ArenaWrite
    \/ HamCreateSizes

SpecPure == Init /\ [][NextPure]_vars

(***************************************************************************)
(* btree_find on its own, on trees of up to two levels.                     *)
(***************************************************************************)
\* the tree the backend's create and inserts of the keys ks, in this order, build
RECURSIVE TreeOf(_, _)
TreeOf(SS, ks) ==
    IF ks = <<>> THEN SS ELSE TreeOf(btree_insert(SS, Head(ks), Rec(7 + (Head(ks) % 2)), FALSE).S, Tail(ks))

\* no root, an empty root, a root that is a leaf, and trees of two levels
Trees ==
    {EmptyStore} \cup {TreeOf(be_create([EmptyStore EXCEPT !.len = 1]), ks) :
                         ks \in {s \in UNION {[1..n -> Keys] : n \in 0..3} : \A i, j \in 1..Len(s) : i # j => s[i] # s[j]}}

\* the caller's record is blank or holds the values of an earlier call
BtreeFind ==
    /\ \E T \in Trees, key \in Keys, fault \in {"none", "fetch", "traverse", "search"},
          record \in {BlankRecord({}), [BlankRecord({}) EXCEPT !.size = 3, !.rid = ToRid(5), !.intflags = {KEY_BLOB_SIZE_SMALL}]} :
         /\ fault = "none" \/ btree_find(T, key, record, fault) # btree_find(T, key, record, "none")
         /\ found' = [called |-> TRUE, tree |-> T, key |-> key, record |-> record, fault |-> fault,
                      res |-> btree_find(T, key, record, fault)]
    /\ UNCHANGED <<dbvars, txn, db_key_arena, db_record_arena, created>>

SpecFind == Init /\ [][BtreeFind]_vars

(***************************************************************************)
(* A database that an earlier session has left in the file: the session     *)
(* created it, inserted two records that go to the blob store, erased one   *)
(* of them and closed it.                                                   *)
(***************************************************************************)
StoredFile ==
    LET c == ham_create_ex(NewHandle, EmptyStore, NoFile, {}, 0, 0, "none")
        i1 == ham_insert(c.h, c.S, c.file, 1, Rec(9), "none")
        i2 == ham_insert(i1.h, i1.S, i1.file, 2, Rec(9), "none")
        e2 == ham_erase(i2.h, i2.S, i2.file, 2, "none")
    IN ham_close(e2.h, e2.S, e2.file, "none", "continue").file

InitStored ==
    /\ h = NewHandle
    /\ S = EmptyStore
    /\ file = StoredFile
    /\ phase = "none"
    /\ ret = NoRet
    /\ hist = [k \in Keys |-> Unknown]
    /\ snap = NoSnap
    /\ oflags = {}
    /\ nops = 0
    /\ nreads = 0
    /\ txn = NullTxn
    /\ db_key_arena = EmptyArena
    /\ db_record_arena = EmptyArena
    /\ created = NoCreate
    /\ found = [called |-> FALSE]

\* the later sessions open the file, insert, erase and close
NextStored ==
    \/ HamNew
    \/ HamDelete
    \/ HamOpen
    \/ HamInsert
    \/ HamErase
    \/ HamClose

SpecStored == InitStored /\ [][NextStored]_vars

(***************************************************************************)
(* Properties.                                                              *)
(***************************************************************************)
HasCall(calls, fn) == \E i \in 1..Len(calls) : calls[i].fn = fn
CountCall(calls, fn) == Cardinality({i \in 1..Len(calls) : calls[i].fn = fn})
AllSucceed(calls) == \A i \in 1..Len(calls) : calls[i].st = HAM_SUCCESS
\* a call of the API was made in this step
Called(op) == ret'.op = op /\ (nops' # nops \/ nreads' # nreads)
\* statuses of a failing device or allocator, which the inputs of a call do not decide
EnvFailures == {HAM_SHORT_READ, HAM_SHORT_WRITE, HAM_OUT_OF_MEMORY}
\* the statuses with which the checks before the transaction reject a call
ValidationFailures == {HAM_INV_BACKEND, HAM_INV_PARAMETER, HAM_DB_READ_ONLY, HAM_INV_KEYSIZE}
\* the calls of ham_find, ham_insert and ham_erase into the backend and the blob store
LowerCalls == {"be_find", "be_insert", "be_erase", "blob_read", "blob_free"}

\* C1: after successful inserts and erases on a database, find(k) returns the
\* record most recently inserted for k, and KeyNotFound when k was never
\* inserted or was erased last.
C1_FindReturnsLatestRecord ==
    (/\ ret.op = "find"
     /\ ~ret.record.null
     /\ ret.st \notin EnvFailures
     /\ hist[ret.key].known)
    => IF hist[ret.key].present
       THEN /\ ret.st = HAM_SUCCESS
            /\ ret.record.size = Len(hist[ret.key].rec)
            /\ ret.record.data = hist[ret.key].rec
       ELSE ret.st = HAM_KEY_NOT_FOUND

\* C2: a record inserted for a key is what find returns for that key, in size
\* and bytes, for every length class: EMPTY (0), TINY (1..7), SMALL (8) and
\* blob (9 or more).
C2_InsertFindRoundTrip ==
    phase = "open"
    => \A k \in Keys :
         (hist[k].known /\ hist[k].present)
         => Contents(h, S, file)[k] = [st |-> HAM_SUCCESS, size |-> Len(hist[k].rec), data |-> hist[k].rec]

C4_ReadOnlyRejectsWrites ==
    [][((Called("insert") \/ Called("erase")) /\ HAM_READ_ONLY \in oflags)
       => /\ ret'.st = HAM_DB_READ_ONLY
          /\ ret'.calls = <<>>
          /\ Contents(h', S', file') = Contents(h, S, file)]_vars

\* C5: when insert, find or erase returns a non-zero status, find returns for
\* every key what it returned before the call; an erase whose blob_free fails
\* has not removed the key.
C5_FailedCallKeepsContents ==
    [][((Called("insert") \/ Called("find") \/ Called("erase")) /\ ret'.st # HAM_SUCCESS)
       => Contents(h', S', file') = Contents(h, S, file)]_vars

\* C5 happens: blob_free failed in an erase and the key is still found
C5_EraseFailedInBlobFree ==
    /\ ret.op = "erase" /\ ret.st # HAM_SUCCESS
    /\ HasCall(ret.calls, "blob_free")
    /\ Contents(h, S, file)[ret.key].st = HAM_SUCCESS

\* C6: a call of find, insert, erase, dump or check_integrity that begins a
\* transaction ends it exactly once, after every other step: by commit if and
\* only if every step succeeded, by abort otherwise; a call rejected by the
\* checks of its parameters begins no transaction.
C6_TransactionEndedOnce ==
    ret.op \in {"find", "insert", "erase", "dump", "check_integrity"}
    => LET begun == CountCall(ret.calls, "ham_txn_begin")
           commits == CountCall(ret.calls, "ham_txn_commit")
           aborts == CountCall(ret.calls, "ham_txn_abort")
       IN /\ begun <= 1
          /\ commits + aborts = begun
          /\ begun = 1 => ret.calls[Len(ret.calls)].fn \in {"ham_txn_commit", "ham_txn_abort"}
          /\ commits = 1 <=> (begun = 1 /\ ret.st = HAM_SUCCESS /\ AllSucceed(ret.calls))
          /\ ret.st \in ValidationFailures => begun = 0

\* C6 happens: an operation failed after its transaction began and aborted it
C6_Aborted ==
    /\ ret.op = "erase"
    /\ HasCall(ret.calls, "ham_txn_begin")
    /\ HasCall(ret.calls, "ham_txn_abort")
    /\ ret.st = HAM_KEY_NOT_FOUND

\* C7: when find, insert or erase returns a non-zero status raised by the
\* backend or the blob store, the status is the one raised, the transaction
\* was aborted, and the handle's last error equals the status.
C7_ErrorRecordedOnHandle ==
    (/\ ret.op \in {"find", "insert", "erase"}
     /\ ret.st # HAM_SUCCESS
     /\ \E i \in 1..Len(ret.calls) : ret.calls[i].fn \in LowerCalls /\ ret.calls[i].st # HAM_SUCCESS)
    => /\ \A i \in 1..Len(ret.calls) : ret.calls[i].st # HAM_SUCCESS => ret.calls[i].st = ret.st
       /\ HasCall(ret.calls, "ham_txn_abort")
       /\ ret.err = ret.st

\* C8: open of a file whose header was read fails with InvalidFileHeader when
\* the magic is wrong, whatever the version, and with InvalidFileVersion when
\* the magic is right and the major or minor version differs; no backend,
\* cache or freelist is then created.
C8_OpenChecksMagicThenVersion ==
    (ret.op = "open" /\ HasCall(ret.calls, "db_fetch_page_from_device") /\ AllSucceed(ret.calls))
    => LET badmagic == file.hp.hdr.magic # MAGIC
           badversion == file.hp.hdr.vmaj # HAM_VERSION_MAJ \/ file.hp.hdr.vmin # HAM_VERSION_MIN
           nothing == /\ ~h.backend /\ ~h.cache
                      /\ ~HasCall(ret.calls, "db_create_backend")
                      /\ ~HasCall(ret.calls, "cache_new")
                      /\ ~HasCall(ret.calls, "freel_create")
       IN /\ badmagic => (ret.st = HAM_INV_FILE_HEADER /\ nothing)
          /\ (~badmagic /\ badversion) => (ret.st = HAM_INV_FILE_VERSION /\ nothing)

\* C8 happens: a file with a wrong magic and a wrong version was opened
C8_BadMagicAndVersion ==
    /\ ret.op = "open" /\ ret.st = HAM_INV_FILE_HEADER
    /\ file.hp.hdr.magic # MAGIC
    /\ file.hp.hdr.vmaj # HAM_VERSION_MAJ

CloseSteps == <<"update_header", "freel_shutdown", "db_flush_all", "db_write_page_to_device", "be_close", "os_close">>
StepIndex(fn) == CHOOSE i \in 1..Len(CloseSteps) : CloseSteps[i] = fn
\* the calls are steps of ham_close, in its order, and those its conditions allow
CloseInOrder(calls) ==
    /\ \A i \in 1..Len(calls) : \E j \in 1..Len(CloseSteps) : CloseSteps[j] = calls[i].fn
    /\ \A i, j \in 1..Len(calls) : i < j => StepIndex(calls[i].fn) < StepIndex(calls[j].fn)
    /\ HasCall(calls, "update_header") <=> h.dirty
    /\ HasCall(calls, "db_write_page_to_device")
         => (h.dirty /\ HAM_READ_ONLY \notin h.hdr.flags /\ HAM_IN_MEMORY_DB \notin h.hdr.flags)

\* C10 as stated: close performs its steps in order, and the first step that
\* returns a non-zero status ends the close and its status is returned.
C10_CloseStopsAtFirstFailure ==
    (ret.op = "close" /\ ret.st # "crash")
    => /\ CloseInOrder(ret.calls)
       /\ \A i \in 1..Len(ret.calls) :
            ret.calls[i].st # HAM_SUCCESS => (i = Len(ret.calls) /\ ret.st = ret.calls[i].st)
       /\ AllSucceed(ret.calls) => ret.st = HAM_SUCCESS

\* C10 amended: close performs its steps in order; the first of the steps up
\* to the close of the backend that returns a non-zero status ends the close
\* and its status is returned; the status of the close of the file handle,
\* the last step, is dropped, and close then returns success.
C10_CloseStopsAtFirstFailureButFileClose ==
    (ret.op = "close" /\ ret.st # "crash")
    => /\ CloseInOrder(ret.calls)
       /\ \A i \in 1..Len(ret.calls) :
            (ret.calls[i].st # HAM_SUCCESS /\ ret.calls[i].fn # "os_close")
            => (i = Len(ret.calls) /\ ret.st = ret.calls[i].st)
       /\ (\A i \in 1..Len(ret.calls) : ret.calls[i].st = HAM_SUCCESS \/ ret.calls[i].fn = "os_close")
            => ret.st = HAM_SUCCESS

\* C10 happens: the write of the header page failed and close stopped there
C10_HeaderWriteFailed ==
    /\ ret.op = "close" /\ ret.st = HAM_SHORT_WRITE
    /\ ret.calls # <<>>
    /\ ret.calls[Len(ret.calls)] = Call("db_write_page_to_device", HAM_SHORT_WRITE)
    /\ db_is_open(h)

\* the steps of a shutdown in the order of the claim C11, and in the order of ham_close
TeardownOrder == <<"be_close", "db_flush_all", "freel_shutdown", "db_write_page_to_device", "os_close">>
CloseOrder == <<"freel_shutdown", "db_flush_all", "db_write_page_to_device", "be_close", "os_close">>
\* every call of a step comes before every call of a step that is later in order
InOrderOf(calls, order) ==
    \A i, j \in 1..Len(calls) : \A a, b \in 1..Len(order) :
        (calls[i].fn = order[a] /\ calls[j].fn = order[b] /\ a < b) => i < j

\* C11 as stated: a close tears down the backend first, flushes the cache
\* second, persists the freelist third, writes the header page fourth and
\* closes the file handle last.
C11_BackendClosedFirst ==
    (ret.op = "close" /\ ret.st = HAM_SUCCESS) => InOrderOf(ret.calls, TeardownOrder)

\* C11 amended: a close persists the freelist first, flushes the cache
\* second, writes the header page third, closes the backend fourth and the
\* file handle last: the backend is closed after the freelist is persisted
\* and after the header page is written.
C11_BackendClosedAfterHeaderWrite ==
    ret.op = "close" => InOrderOf(ret.calls, CloseOrder)

\* C11 happens: a close went through all five steps
C11_FullClose ==
    /\ ret.op = "close" /\ ret.st = HAM_SUCCESS
    /\ \A a \in 1..Len(CloseOrder) : HasCall(ret.calls, CloseOrder[a])

\* C12 as stated: after a failed open or create the handle is as ham_new
\* left it: the file descriptor is invalid and no header page, backend or
\* cache is attached.
C12_FailedOpenLeavesNewHandle ==
    (ret.op \in {"open", "create"} /\ ret.st # HAM_SUCCESS)
    => /\ ~db_is_open(h)
       /\ ~h.header_page.present
       /\ ~h.backend
       /\ ~h.cache

C14_FindEmptyRecord ==
    (/\ ret.op = "find"
     /\ ~ret.record.null
     /\ ret.fault = "none"
     /\ hist[ret.key] = Present(NoData))
    => /\ ret.st = HAM_SUCCESS
       /\ ret.record.size = 0
       /\ KEY_BLOB_SIZE_EMPTY \in ret.record.intflags

\* the header fields that are fixed at create
FixedFields(hdr) == <<hdr.magic, hdr.vmaj, hdr.vmin, hdr.vrev, hdr.pagesize, hdr.keysize>>

\* C15: insert, find, erase, flush, check_integrity and close leave the
\* magic, version, page size and key size of the handle as they are, and a
\* header page they write, in memory or to the file, carries the same values.
C15_HeaderFieldsFixed ==
    [][(\E op \in {"insert", "find", "erase", "flush", "check_integrity", "close"} : Called(op))
       => /\ FixedFields(h'.hdr) = FixedFields(h.hdr)
          /\ h'.header_page.hdr # h.header_page.hdr => FixedFields(h'.header_page.hdr) = FixedFields(h.hdr)
          /\ file'.hp # file.hp => FixedFields(file'.hp.hdr) = FixedFields(h.hdr)]_vars

\* C15 happens: a close after a change of the root wrote the header page to the file
C15_HeaderWritten ==
    /\ ret.op = "close" /\ ret.st = HAM_SUCCESS
    /\ HasCall(ret.calls, "db_write_page_to_device")
    /\ file.hp.hdr.magic = MAGIC
    /\ file.hp.hdr.keysize = 32 - SIZEOF_KEY_T - 1
    /\ file.hp.hdr.root # 0

\* C16: key_arena and record_arena name the database's arena exactly when
\* there is no transaction or the transaction is TEMPORARY, and the arena of
\* the transaction otherwise; both name the same owner; a write under a
\* transaction that is not TEMPORARY leaves the database's arenas as they are.
C16_ArenaOwner ==
    [][LET own == txn.null \/ UPS_TXN_TEMPORARY \in txn.flags
       IN /\ key_arena(txn) = (IF own THEN "_key_arena" ELSE "txn->key_arena")
          /\ record_arena(txn) = (IF own THEN "_record_arena" ELSE "txn->record_arena")
          /\ ~own => (db_key_arena' = db_key_arena /\ db_record_arena' = db_record_arena)
          /\ own => (txn'.key_arena = txn.key_arena /\ txn'.record_arena = txn.record_arena)]_vars

\* C16 happens: the arenas of the database hold data, and a transaction that
\* is not TEMPORARY has other data in its own
C16_BothArenasWritten ==
    /\ ~txn.null /\ UPS_TXN_TEMPORARY \notin txn.flags
    /\ txn.key_arena = <<2>> /\ txn.record_arena = <<1>>
    /\ db_key_arena = <<1>> /\ db_record_arena = <<2>>

\* C17 as stated: on a database with HAM_DISABLE_VAR_KEYLEN an insert of a key
\* longer than the key size returns InvalidKeySize, begins no transaction
\* and changes nothing.
C17_LongKeyRejected ==
    [][(Called("insert") /\ HAM_DISABLE_VAR_KEYLEN \in h.hdr.flags /\ KeyLen(ret'.key) > h.hdr.keysize)
       => /\ ret'.st = HAM_INV_KEYSIZE
          /\ ret'.calls = <<>>
          /\ h' = h /\ S' = S /\ file' = file]_vars

\* C17 amended: on a database with HAM_DISABLE_VAR_KEYLEN and without
\* HAM_READ_ONLY an insert of a key longer than the key size returns
\* InvalidKeySize, begins no transaction and changes nothing; with
\* HAM_READ_ONLY the insert returns ReadOnly, and likewise changes nothing.
C17_LongKeyRejectedUnlessReadOnly ==
    [][(Called("insert") /\ HAM_DISABLE_VAR_KEYLEN \in h.hdr.flags /\ KeyLen(ret'.key) > h.hdr.keysize)
       => /\ ret'.st = (IF HAM_READ_ONLY \in h.hdr.flags THEN HAM_DB_READ_ONLY ELSE HAM_INV_KEYSIZE)
          /\ ret'.calls = <<>>
          /\ h' = h /\ S' = S /\ file' = file]_vars

\* C17 happens: a key of 30 bytes was rejected for a key size of 19
C17_LongKeyInsert ==
    /\ ret.op = "insert" /\ ret.st = HAM_INV_KEYSIZE
    /\ HAM_DISABLE_VAR_KEYLEN \in h.hdr.flags
    /\ HAM_READ_ONLY \notin h.hdr.flags
    /\ KeyLen(ret.key) > h.hdr.keysize

\* C18 as stated: when create succeeds, the stored page size is a multiple
\* of 512 and four key slots, each the key bytes and the slot's other fields,
\* fit in one page.
C18_FourSlotsFit ==
    created.st = HAM_SUCCESS
    => /\ created.hdr.pagesize % 512 = 0
       /\ 4 * (created.hdr.keysize + SIZEOF_KEY_T - 1) <= created.hdr.pagesize

\* C19: after the close of a database right after its create and a re-open of
\* the file, the header fields, the root page id and the freelist are those
\* of the time of the close.
C19_ReopenKeepsHeader ==
    (ret.op = "open" /\ ret.st = HAM_SUCCESS /\ snap.valid /\ snap.fresh)
    => /\ h.hdr = snap.hdr
       /\ S.root = snap.hdr.root
       /\ S.freel = snap.freel

\* C19 happens: a database created with a key size of 8 was closed and re-opened
C19_FreshReopened ==
    /\ ret.op = "open" /\ ret.st = HAM_SUCCESS /\ snap.valid /\ snap.fresh
    /\ h.hdr.magic = MAGIC /\ h.hdr.keysize = 8 /\ h.hdr.pagesize = 512
    /\ h.hdr.root # 0

\* C20: open with HAM_IN_MEMORY_DB returns InvalidParameter, opens and reads
\* no file and leaves the handle as it was.
C20_OpenRejectsInMemory ==
    [][(Called("open") /\ HAM_IN_MEMORY_DB \in oflags')
       => /\ ret'.st = HAM_INV_PARAMETER
          /\ ret'.calls = <<>>
          /\ h' = h /\ S' = S /\ file' = file]_vars

\* C20 happens: a file that exists was to be opened in memory
C20_InMemoryOpenOfFile ==
    /\ ret.op = "open" /\ ret.st = HAM_INV_PARAMETER
    /\ HAM_IN_MEMORY_DB \in oflags
    /\ file.exists /\ file.hp.hdr.magic = MAGIC

\* the pages that are reachable from the root: the root, the children of an
\* internal root, and the blobs that the slots of the leaves point to
InlineFlags == {KEY_BLOB_SIZE_TINY, KEY_BLOB_SIZE_SMALL, KEY_BLOB_SIZE_EMPTY}
IndexReach(SS) ==
    IF SS.root \notin PageIds THEN {}
    ELSE IF SS.pages[SS.root].leaf THEN {SS.root}
    ELSE {SS.root} \cup {NodeChildren(SS.pages[SS.root])[i] : i \in 1..(Len(SS.pages[SS.root].slots) + 1)}
LeafBlobs(page) ==
    {FromRid(page.slots[i].ptr) : i \in {j \in 1..Len(page.slots) : page.slots[j].flags \cap InlineFlags = {}}}
BlobReach(SS) == UNION {LeafBlobs(SS.pages[p]) : p \in {q \in IndexReach(SS) \cap PageIds : SS.pages[q].leaf}}
Reach(SS) == IndexReach(SS) \cup BlobReach(SS)
NoDuplicates(seq) == \A i, j \in 1..Len(seq) : i # j => seq[i] # seq[j]

\* C21 as stated: while a database is open the freelist holds no page id
\* twice and no page id that is reachable from the root, and an operation
\* extends the file only after it has taken every page of the freelist.
C21_FreelistSound ==
    [][phase' = "open"
       => /\ NoDuplicates(S'.freel)
          /\ \A i \in 1..Len(S'.freel) : S'.freel[i] \notin Reach(S')
          /\ (phase = "open" /\ S'.len > S.len) => S'.freel = <<>>]_vars

\* C25 as stated: after a successful close of a file-backed database that is
\* not read-only the header page is not dirty, the file holds its payload,
\* and no page differs from the file.
C25_DirtyHeaderWrittenAtClose ==
    (/\ ret.op = "close" /\ ret.st = HAM_SUCCESS
     /\ HAM_IN_MEMORY_DB \notin h.hdr.flags
     /\ HAM_READ_ONLY \notin h.hdr.flags /\ HAM_READ_ONLY \notin oflags)
    => /\ HasCall(ret.calls, "os_close")
       /\ ~h.header_page.dirty
       /\ file.hp = [hdr |-> h.header_page.hdr, freel |-> h.header_page.freel]
       /\ S.dirty = {}
       /\ \A p \in PageIds : p < S.len => file.pages[p] = S.pages[p]

\* C22 as stated: in every state between a successful create or open and
\* the close, the database has its cache and its header page is resident.
C22_HeaderPageResident ==
    phase = "open" => (h.cache /\ h.header_page.present)

\* C23 as stated: a find whose search succeeded calls blob_read exactly when
\* an erase of the slot would call blob_free, which is exactly when the slot
\* has none of the flags EMPTY, TINY and SMALL.
C23_SameInlinePredicate ==
    (/\ ret.op = "find"
     /\ \E i \in 1..Len(ret.calls) : ret.calls[i] = Call("be_find", HAM_SUCCESS))
    => /\ HasCall(ret.calls, "blob_read") <=> erase_frees_blob(ret.record.intflags)
       /\ HasCall(ret.calls, "blob_read") <=> (ret.record.intflags \cap InlineFlags = {})

\* C27 as stated: a close of a database created with HAM_IN_MEMORY_DB that no
\* step fails returns success, and reads and writes no header page, writes
\* no file and closes no file.
C27_InMemoryCloseTouchesNoHeader ==
    (ret.op = "close" /\ ret.fault = "none" /\ HAM_IN_MEMORY_DB \in h.hdr.flags)
    => /\ ret.st = HAM_SUCCESS
       /\ ~HasCall(ret.calls, "update_header")
       /\ ~HasCall(ret.calls, "db_write_page_to_device")
       /\ ~HasCall(ret.calls, "os_close")

C24_FindDescendsToLeaf ==
    found.called
    => LET T == found.tree
           r == found.res
           n == Len(r.path)
       IN /\ T.root = 0 => (r.st = HAM_KEY_NOT_FOUND /\ r.path = <<>>)
          /\ (T.root # 0 /\ found.fault = "none")
               => /\ n >= 1 /\ r.path[1] = T.root
                  /\ \A i \in 1..(n - 1) : /\ ~T.pages[r.path[i]].leaf
                                           /\ r.path[i + 1] = ChildFor(T.pages[r.path[i]], found.key)
                  /\ T.pages[r.path[n]].leaf
                  /\ r.st = HAM_SUCCESS <=> found.key \in SlotKeys(T.pages[r.path[n]].slots)
                  /\ r.st \in {HAM_SUCCESS, HAM_KEY_NOT_FOUND}
          /\ r.st = HAM_SUCCESS
               => \E i \in 1..Len(T.pages[r.path[n]].slots) :
                     /\ T.pages[r.path[n]].slots[i].key = found.key
                     /\ r.record = [found.record EXCEPT !.rid = T.pages[r.path[n]].slots[i].ptr,
                                                        !.intflags = T.pages[r.path[n]].slots[i].flags]
          /\ r.st # HAM_SUCCESS => (r.err = r.st /\ r.record = found.record)

\* C24 happens: a key was found in a leaf below the root, and its slot has a flag
C24_FoundBelowRoot ==
    /\ found.called
    /\ found.res.st = HAM_SUCCESS
    /\ Len(found.res.path) = 2
    /\ found.res.record.intflags = {KEY_BLOB_SIZE_TINY}

====
